---------------------------- MODULE Spec2Model ----------------------------
(***************************************************************************)
(* Model of the mkcore thin-line simulation core (src/mkcore).             *)
(*                                                                         *)
(* Number representation.                                                  *)
(*  - A complex amplitude is a Gaussian integer <<re, im>>.  A state       *)
(*    vector is a record [amps, den]: element i (0-based, stored at        *)
(*    position i+1) is amps[i+1] / sqrt(den).  Permutations, rz by         *)
(*    multiples of pi, Hadamard and normalisation are exact in this form.  *)
(*  - Angles are integers in units of pi.                                  *)
(*  - Python floats are fixed-point numbers with ONE units per 1.0;        *)
(*    a division rounds to the nearest unit, as IEEE division rounds to    *)
(*    the nearest float.                                                   *)
(***************************************************************************)
EXTENDS Integers, Sequences, FiniteSets, TLC

(* ------------------------------ bounds -------------------------------- *)
MaxSteps == 2        \* step calls made on one instance
MaxShots == 2        \* largest configured shot count
MaxProbeShots == 2   \* largest shot count of a direct sample_counts call
MaxUpdates == 3      \* update calls made on a stand-alone decoder
FracBits == 4        \* fractional bits of a fixed-point float

(* ----------------------- fixed-point "floats" -------------------------- *)
Pow2(n) == 2 ^ n

ONE == Pow2(FracBits)   \* fixed-point units per 1.0
TinyEps == 1            \* the 1e-9 guard of update: the smallest positive unit

\* a / b rounded to the nearest integer (a >= 0, b > 0)
RoundDiv(a, b) == (2 * a + b) \div (2 * b)

RECURSIVE ISqrtFrom(_, _)
ISqrtFrom(x, r) == IF (r + 1) * (r + 1) > x THEN r ELSE ISqrtFrom(x, r + 1)

\* floor of the square root
ISqrt(x) == ISqrtFrom(x, 0)

RECURSIVE SumSeq(_)
SumSeq(s) == IF s = <<>> THEN 0 ELSE Head(s) + SumSeq(Tail(s))

\* max(s) of a non-empty sequence
MaxSeq(s) == CHOOSE x \in {s[i] : i \in 1..Len(s)} : \A i \in 1..Len(s) : x >= s[i]

\* the element of a one-element set: { f(x) : x \in {e} } computes e once
Only(S) == CHOOSE x \in S : TRUE

(* --------------------------- complex numbers --------------------------- *)
CAdd(a, b) == <<a[1] + b[1], a[2] + b[2]>>
CMul(a, b) == <<a[1] * b[1] - a[2] * b[2], a[1] * b[2] + a[2] * b[1]>>
CAbsSq(a) == a[1] * a[1] + a[2] * a[2]
CZero == <<0, 0>>
COne == <<1, 0>>

\* exp(1j * k * pi / 2), k any integer
IPow(k) ==
    CASE k % 4 = 0 -> <<1, 0>>
      [] k % 4 = 1 -> <<0, 1>>
      [] k % 4 = 2 -> <<-1, 0>>
      [] k % 4 = 3 -> <<0, -1>>

(* ------------------------------ state.py ------------------------------- *)
StateLen(state) == Len(state.amps)

\* sum of abs(amplitude) ** 2, as a numerator over state.den
MassOf(amps) == SumSeq([i \in 1..Len(amps) |-> CAbsSq(amps[i])])

\* the squared norm is 1 exactly when the numerator equals the denominator
IsUnitNorm(state) == MassOf(state.amps) = state.den

basis_state(index, n_qubits) ==
    LET dimension == Pow2(n_qubits) IN
    IF index < 0 \/ index >= dimension
    THEN [raised |-> "index out of range for number of qubits"]
    ELSE [raised |-> "none",
          result |-> [amps |-> [i \in 1..dimension |->
                                    IF i = index + 1 THEN COne ELSE CZero],
                      den |-> 1]]

uniform_superposition(n_qubits) ==
    [amps |-> [i \in 1..Pow2(n_qubits) |-> COne], den |-> Pow2(n_qubits)]

\* a plausible slip: the sum skips the first amplitude
NormSqSkipFirst(state) == MassOf(Tail(state.amps))

\* norm_sq of normalize, as a numerator over state.den
NormSq(state) == MassOf(state.amps)

normalize(state) ==
    Only({IF norm_sq = 0
          THEN [raised |-> "cannot normalize zero vector"]
          ELSE [raised |-> "none",
                result |-> [amps |-> state.amps, den |-> norm_sq]] :
          norm_sq \in {NormSq(state)}})

(* ----------------------------- dynamics.py ----------------------------- *)
\* a gate is [m, den]: the matrix entries are m[r][c] / sqrt(den)
HADAMARD == [m |-> << <<COne, COne>>, <<COne, <<-1, 0>> >> >>, den |-> 2]

\* a plausible slip: the gate mixes the two amplitudes of a pair (the
\* Hadamard matrix in place of the diagonal one)
RzMixing(theta) == HADAMARD

\* theta in units of pi: half = theta * pi / 2
rz(theta) ==
    [m |-> << <<IPow(-theta), CZero>>, <<CZero, IPow(theta)>> >>, den |-> 1]

BitOf(index, q) == (index \div Pow2(q)) % 2

\* index ^ (1 << q)
FlipBit(index, q) ==
    IF BitOf(index, q) = 0 THEN index + Pow2(q) ELSE index - Pow2(q)

apply_single_qubit_gate(state, gate, qubit, n_qubits) ==
    IF qubit < 0 \/ qubit >= n_qubits
    THEN [raised |-> "qubit index out of range"]
    ELSE
      LET stride == Pow2(qubit)
          amp(i) == state.amps[i + 1]
          new(i) ==
              IF BitOf(i, qubit) = 0
              THEN CAdd(CMul(gate.m[1][1], amp(i)),
                        CMul(gate.m[1][2], amp(i + stride)))
              ELSE CAdd(CMul(gate.m[2][1], amp(i - stride)),
                        CMul(gate.m[2][2], amp(i)))
      IN [raised |-> "none",
          result |-> [amps |-> [p \in 1..StateLen(state) |-> new(p - 1)],
                      den |-> state.den * gate.den]]

\* result[index], result[flipped] = result[flipped], result[index]
SwapAt(amps, i, j) ==
    [p \in 1..Len(amps) |->
        IF p = i + 1 THEN amps[j + 1]
        ELSE IF p = j + 1 THEN amps[i + 1]
        ELSE amps[p]]

\* a plausible slip: the swap fires from both sides of a pair
CxTriggerSymmetric(index, control, target) == BitOf(index, control) = 1

\* the condition under which the pass swaps at index
CxTrigger(index, control, target) ==
    BitOf(index, control) = 1 /\ BitOf(index, target) = 0

\* the single pass over all indices, swapping in place in result
\* the body of the loop at index
CxVisit(amps, index, control, target) ==
    IF CxTrigger(index, control, target)
    THEN SwapAt(amps, index, FlipBit(index, target))
    ELSE amps

RECURSIVE CxPass(_, _, _, _)
CxPass(amps, index, control, target) ==
    IF index >= Len(amps) THEN amps
    ELSE Only({CxPass(next, index + 1, control, target) :
               next \in {CxVisit(amps, index, control, target)}})

\* a plausible slip: the range test comes first
CxErrorRangeFirst(control, target, n_qubits) ==
    IF ~(0 <= control /\ control < n_qubits /\ 0 <= target /\ target < n_qubits)
    THEN "qubit index out of range"
    ELSE IF control = target THEN "control and target must be different"
    ELSE "none"

\* the argument checks of apply_controlled_x, in the order of the code
CxError(control, target, n_qubits) ==
    IF control = target THEN "control and target must be different"
    ELSE IF ~(0 <= control /\ control < n_qubits
              /\ 0 <= target /\ target < n_qubits)
    THEN "qubit index out of range"
    ELSE "none"

apply_controlled_x(state, control, target, n_qubits) ==
    Only({IF error # "none"
          THEN [raised |-> error]
          ELSE [raised |-> "none",
                result |-> [amps |-> CxPass(state.amps, 0, control, target),
                            den |-> state.den]] :
          error \in {CxError(control, target, n_qubits)}})

\* state = apply_controlled_x(state, qubit, qubit + 1, n_qubits) for
\* qubit = from .. n_qubits - 2
RECURSIVE EntangleFrom(_, _, _)
EntangleFrom(state, qubit, n_qubits) ==
    IF qubit >= n_qubits - 1 THEN state
    ELSE EntangleFrom(apply_controlled_x(state, qubit, qubit + 1, n_qubits).result,
                      qubit + 1, n_qubits)

entangle_chain(state, n_qubits) == EntangleFrom(state, 0, n_qubits)

RECURSIVE HadamardFrom(_, _, _)
HadamardFrom(state, qubit, n_qubits) ==
    IF qubit >= n_qubits THEN state
    ELSE HadamardFrom(apply_single_qubit_gate(state, HADAMARD, qubit, n_qubits).result,
                      qubit + 1, n_qubits)

apply_hadamard_all(state, n_qubits) == HadamardFrom(state, 0, n_qubits)

(* ---------------------------- measurement.py --------------------------- *)
\* value / total as a float
ProbOf(value, total) == RoundDiv(value * ONE, total)

probabilities(state) ==
    Only({IF total = 0
          THEN [raised |-> "state has zero probability mass"]
          ELSE [raised |-> "none",
                result |-> [i \in 1..StateLen(state) |->
                               ProbOf(CAbsSq(state.amps[i]), total)]] :
          total \in {MassOf(state.amps)}})

\* running += value; cumulative.append(running)
RECURSIVE Cumulative(_, _)
Cumulative(probs, running) ==
    IF probs = <<>> THEN <<>>
    ELSE <<running + Head(probs)>> \o Cumulative(Tail(probs), running + Head(probs))

\* the while loop: the least n_qubits with (1 << n_qubits) >= length
RECURSIVE QubitsFor(_, _)
QubitsFor(length, n_qubits) ==
    IF Pow2(n_qubits) < length THEN QubitsFor(length, n_qubits + 1) ELSE n_qubits

\* the binary digits of index, most significant first ("0" for 0)
RECURSIVE BinDigits(_)
BinDigits(index) ==
    IF index < 2 THEN <<index>> ELSE BinDigits(index \div 2) \o <<index % 2>>

RECURSIVE ZeroPad(_, _)
ZeroPad(digits, width) ==
    IF Len(digits) >= width THEN digits ELSE ZeroPad(<<0>> \o digits, width)

\* a plausible slip: the key is not padded to the register width
FormatUnpadded(index, width) == BinDigits(index)

\* format(index, f"0{width}b"): a key is the sequence of its characters
Format(index, width) == ZeroPad(BinDigits(index), width)

\* the basis index a draw r selects: the first index with r <= threshold,
\* or -1 when r is past every threshold (the for loop ends without a break)
RECURSIVE FirstAtLeast(_, _, _)
FirstAtLeast(cumulative, r, index) ==
    IF index >= Len(cumulative) THEN -1
    ELSE IF r <= cumulative[index + 1] THEN index
    ELSE FirstAtLeast(cumulative, r, index + 1)

\* the shots loop; rs is the sequence of values rng.random() returns
\* one draw: the key of the selected index is incremented, if there is one
CountOne(counts, index, n_qubits) ==
    IF index = -1 THEN counts
    ELSE [counts EXCEPT ![Format(index, n_qubits)] = @ + 1]

RECURSIVE CountDraws(_, _, _, _)
CountDraws(counts, cumulative, rs, n_qubits) ==
    IF rs = <<>> THEN counts
    ELSE CountDraws(
             Only({CountOne(counts, index, n_qubits) :
                   index \in {FirstAtLeast(cumulative, Head(rs), 0)}}),
             cumulative, Tail(rs), n_qubits)

\* Counts is a function from keys to integers
\* sample_counts once n_qubits is known and probs = probabilities(state)
SampleWith(length, n_qubits, probs, rs) ==
    IF probs.raised # "none" THEN [raised |-> probs.raised]
    ELSE [raised |-> "none",
          result |-> CountDraws(
              [key \in {Format(index, n_qubits) : index \in 0..(length - 1)} |-> 0],
              Cumulative(probs.result, 0), rs, n_qubits)]

sample_counts(state, shots, rs) ==
    IF shots <= 0 THEN [raised |-> "shots must be positive"]
    ELSE Only({IF Pow2(n_qubits) # StateLen(state)
               THEN [raised |-> "state vector length is not a power of two"]
               ELSE Only({SampleWith(StateLen(state), n_qubits, probs, rs) :
                          probs \in {probabilities(state)}}) :
               n_qubits \in {QubitsFor(StateLen(state), 0)}})

\* string comparison a < b
RECURSIVE LexLess(_, _)
LexLess(a, b) ==
    IF b = <<>> THEN FALSE
    ELSE IF a = <<>> THEN TRUE
    ELSE IF Head(a) # Head(b) THEN Head(a) < Head(b)
    ELSE LexLess(Tail(a), Tail(b))

\* sorted(keys)
\* the least key of a non-empty set
Least(keys) == CHOOSE k \in keys : \A o \in keys \ {k} : LexLess(k, o)

RECURSIVE Sorted(_)
Sorted(keys) ==
    IF keys = {} THEN <<>>
    ELSE Only({<<least>> \o Sorted(keys \ {least}) : least \in {Least(keys)}})

\* float(count)
Float(count) == count * ONE

counts_to_signal(counts) ==
    IF DOMAIN counts = {}
    THEN [raised |-> "counts dictionary cannot be empty"]
    ELSE [raised |-> "none",
          result |-> Only({[i \in 1..Len(ordered_keys) |->
                               Float(counts[ordered_keys[i]])] :
                           ordered_keys \in {Sorted(DOMAIN counts)}})]

(* ------------------------------ signal.py ------------------------------ *)
\* exp(-2j * pi * j / 8) as a pair of floats
Twiddle(j) ==
    LET h == ISqrt((ONE * ONE) \div 2) IN
    CASE j % 8 = 0 -> <<ONE, 0>>
      [] j % 8 = 1 -> <<h, -h>>
      [] j % 8 = 2 -> <<0, -ONE>>
      [] j % 8 = 3 -> <<-h, -h>>
      [] j % 8 = 4 -> <<-ONE, 0>>
      [] j % 8 = 5 -> <<-h, h>>
      [] j % 8 = 6 -> <<0, ONE>>
      [] j % 8 = 7 -> <<h, h>>

\* a float product, rounded to the nearest unit
FMul(a, b) ==
    Only({IF ab >= 0 THEN RoundDiv(ab, ONE) ELSE -RoundDiv(-ab, ONE) :
          ab \in {a * b}})

\* total += value * exp(angle) for t = from .. n - 1 (n divides 8)
\* value * exp(angle)
Scaled(value, tw) == <<FMul(value, tw[1]), FMul(value, tw[2])>>

RECURSIVE FftTerm(_, _, _)
FftTerm(values, k, t) ==
    IF t >= Len(values) THEN CZero
    ELSE CAdd(Scaled(values[t + 1], Twiddle(k * t * (8 \div Len(values)))),
              FftTerm(values, k, t + 1))

_real_fft(values) ==
    [i \in 1..(Len(values) \div 2 + 1) |-> FftTerm(values, i - 1, 0)]

\* abs(value) of a complex float
CAbs(value) == ISqrt(CAbsSq(value))

\* magnitudes = [value / scale for value in magnitudes]
Rescaled(magnitudes, scale) ==
    [i \in 1..Len(magnitudes) |-> RoundDiv(magnitudes[i] * ONE, scale)]

\* the normalisation branch of fourier_spectrum
SpectrumOf(magnitudes, config) ==
    IF config.normalize /\ magnitudes # <<>>
    THEN Rescaled(magnitudes, MaxSeq(magnitudes) + config.epsilon)
    ELSE magnitudes

fourier_spectrum(signal, config) ==
    Only({SpectrumOf(magnitudes, config) :
          magnitudes \in {Only({[i \in 1..Len(complex_spectrum) |->
                                     CAbs(complex_spectrum[i])] :
                                 complex_spectrum \in {_real_fft(signal)}})}})

\* the number of elements of s below x, and equal to x
Below(s, x) == Cardinality({i \in 1..Len(s) : s[i] < x})
Same(s, x) == Cardinality({i \in 1..Len(s) : s[i] = x})

\* sorted(s)[p], p 0-based
NthSmallest(s, p) ==
    CHOOSE x \in {s[i] : i \in 1..Len(s)} : Below(s, x) <= p /\ p < Below(s, x) + Same(s, x)

\* statistics.median
median(s) ==
    LET n == Len(s) IN
    IF n % 2 = 1 THEN NthSmallest(s, n \div 2)
    ELSE (NthSmallest(s, n \div 2 - 1) + NthSmallest(s, n \div 2)) \div 2

\* statistics.mean
mean(s) == RoundDiv(SumSeq(s), Len(s))

\* a plausible slip: the history is an unbounded list
AppendUnbounded(history, ratio, maxlen) == Append(history, ratio)

\* deque(maxlen).append
DequeAppend(history, ratio, maxlen) ==
    IF Len(history) >= maxlen
    THEN Append(Tail(history), ratio)
    ELSE Append(history, ratio)

\* SimpleSpectrumDecoder.__init__: the decoder is [history, baseline]
NewDecoder == [history |-> <<>>, baseline |-> ONE]

PeakRatio(spectrum) == RoundDiv(MaxSeq(spectrum) * ONE, median(spectrum) + TinyEps)

\* a plausible slip: the two weights are exchanged
BlendSwapped(smoothing, averaged, baseline) ==
    FMul(ONE - smoothing, averaged) + FMul(smoothing, baseline)

\* update, lines 69-72: smoothing * averaged + (1 - smoothing) * baseline
Blend(smoothing, averaged, baseline) ==
    FMul(smoothing, averaged) + FMul(ONE - smoothing, baseline)

\* SimpleSpectrumDecoder.update: isfinite(ratio) holds of every fixed-point
\* value, so the clamp to 0.0 never applies
\* update once ratio and the appended history are known
UpdateWith(decoder, config, spectrum, ratio, history) ==
    [raised |-> "none",
     decoder |-> [history |-> history,
                  baseline |-> Blend(config.smoothing, mean(history),
                                     decoder.baseline)],
     result |-> [spectrum |-> spectrum, peak_ratio |-> ratio]]

\* a plausible slip: the history is cleared before the error is raised
UpdateRefusedCleared(decoder) ==
    [raised |-> "spectrum cannot be empty",
     decoder |-> [decoder EXCEPT !.history = <<>>]]

\* update, lines 59-60: the error is raised before any field is written
UpdateRefused(decoder) ==
    [raised |-> "spectrum cannot be empty", decoder |-> decoder]

DecoderUpdate(decoder, config, spectrum) ==
    IF spectrum = <<>>
    THEN UpdateRefused(decoder)
    ELSE Only({Only({UpdateWith(decoder, config, spectrum, ratio, history) :
                     history \in {DequeAppend(decoder.history, ratio,
                                               config.history)}}) :
               ratio \in {PeakRatio(spectrum)}})

\* a plausible slip: the comparison is strict
DetectStrict(decoder, config) == decoder.baseline > config.threshold

\* SimpleSpectrumDecoder.detect
DecoderDetect(decoder, config) == decoder.baseline >= config.threshold

(* ------------------------------ config.py ------------------------------ *)
QuantumConfigError(q) ==
    IF q.n_qubits <= 0 THEN "n_qubits must be positive"
    ELSE IF q.shots <= 0 THEN "shots must be positive"
    ELSE IF q.coupling_strength < 0 THEN "coupling_strength must be non-negative"
    ELSE "none"

SignalConfigError(s) ==
    IF s.epsilon <= 0 THEN "epsilon must be positive" ELSE "none"

FeedbackConfigError(f) ==
    IF f.pattern_rotation < 0 THEN "pattern_rotation must be non-negative"
    ELSE IF f.noise_rotation < 0 THEN "noise_rotation must be non-negative"
    ELSE IF f.target_qubit < 0 THEN "target_qubit must be non-negative"
    ELSE IF f.perturb_qubit < 0 THEN "perturb_qubit must be non-negative"
    ELSE "none"

DecoderConfigError(d) ==
    IF d.threshold <= 0 THEN "threshold must be positive"
    ELSE IF ~(0 <= d.smoothing /\ d.smoothing <= ONE)
    THEN "smoothing must be between 0 and 1"
    ELSE IF d.history <= 0 THEN "history must be positive"
    ELSE "none"

(* ------------------------- the random generator ------------------------ *)
\* random.Random is a deterministic generator: a full-period congruential
\* generator over the ONE floats of [0, 1)
RngNext(s) == (5 * s + 3) % ONE

\* the values the next k calls of rng.random() return
RECURSIVE RngDraws(_, _)
RngDraws(s, k) ==
    IF k = 0 THEN <<>> ELSE <<RngNext(s)>> \o RngDraws(RngNext(s), k - 1)

RECURSIVE RngAfter(_, _)
RngAfter(s, k) == IF k = 0 THEN s ELSE RngAfter(RngNext(s), k - 1)

\* what Random(None) may seed itself with from the operating system
OsEntropy == {2, 7}

\* the generator states Random(seed) can start in
\* a plausible slip: the generator is built without the seed
RandomStatesUnseeded(seed) == OsEntropy

\* (an Optional[int] seed is <<>> for None and <<k>> for the integer k)
RandomStates(seed) == IF seed = <<>> THEN OsEntropy ELSE {seed[1] % ONE}

(* ------------------------------- core.py ------------------------------- *)
AlphaInv == 137      \* ALPHA = 1 / 137

\* _apply_feedback: the gate and the qubit the decision selects
\* a plausible slip: the two rotations are exchanged
FeedbackAngleSwapped(feedback, detected_pattern) ==
    IF detected_pattern THEN feedback.noise_rotation ELSE feedback.pattern_rotation

FeedbackAngle(feedback, detected_pattern) ==
    IF detected_pattern THEN feedback.pattern_rotation ELSE feedback.noise_rotation

FeedbackQubit(feedback, detected_pattern) ==
    IF detected_pattern THEN feedback.target_qubit ELSE feedback.perturb_qubit

\* ThinLineCore.__init__ for a generator state s
NewCore(config, s) ==
    [state |-> normalize(uniform_superposition(config.quantum.n_qubits)).result,
     rng |-> s,
     decoder |-> NewDecoder]

\* ThinLineCore.step on the instance fields self = [state, rng, decoder]:
\* the fields after the call, and the StepResult or the error raised
\* step, lines 71-75: the entangling chain, then rz(coupling * ALPHA) on qubit 0
Evolve(state, quantum) ==
    apply_single_qubit_gate(entangle_chain(state, quantum.n_qubits),
                            rz(quantum.coupling_strength \div AlphaInv),
                            0, quantum.n_qubits).result

\* step, lines 77-80: sample with the owned generator, convert, transform,
\* update the decoder
Analyse(evolved, rng, decoder, config) ==
    DecoderUpdate(decoder, config.decoder,
        fourier_spectrum(
            counts_to_signal(
                sample_counts(evolved, config.quantum.shots,
                              RngDraws(rng, config.quantum.shots)).result).result,
            config.signal))

\* _apply_feedback(detected) on the evolved state
Feedback(evolved, config, detected) ==
    apply_single_qubit_gate(evolved,
        rz(FeedbackAngle(config.feedback, detected)),
        FeedbackQubit(config.feedback, detected), config.quantum.n_qubits)

\* step, lines 82-89: the fields and the StepResult once the feedback gate
\* was applied, or the error it raised
Conclude(evolved, rng, updated, detected, fed, step_index) ==
    IF fed.raised # "none"
    THEN [raised |-> fed.raised,
          self |-> [state |-> evolved, rng |-> rng, decoder |-> updated.decoder]]
    ELSE [raised |-> "none",
          self |-> [state |-> normalize(fed.result).result, rng |-> rng,
                    decoder |-> updated.decoder],
          result |-> [step |-> step_index,
                      detected_pattern |-> detected,
                      peak_ratio |-> updated.result.peak_ratio,
                      spectrum |-> updated.result.spectrum]]

\* step, line 81: detect() reads the decoder that update left
Decide(evolved, rng, updated, config, step_index) ==
    Only({Only({Conclude(evolved, rng, updated, detected, fed, step_index) :
                fed \in {Feedback(evolved, config, detected)}}) :
          detected \in {DecoderDetect(updated.decoder, config.decoder)}})

StepOutcome(self, config, step_index) ==
    Only({Only({Decide(evolved, RngAfter(self.rng, config.quantum.shots),
                       updated, config, step_index) :
                updated \in {Analyse(evolved, self.rng, self.decoder, config)}}) :
          evolved \in {Evolve(self.state, config.quantum)}})

\* a plausible slip: the guard lets zero through
RunRejectsNegative(num_steps) == num_steps < 0

\* run: the guard that raises
RunRejects(num_steps) == num_steps <= 0

\* a plausible slip: the loop stops one step early
LoopDoneEarly(idx, num_steps) == idx >= num_steps - 1

\* run: for idx in range(num_steps) is exhausted
LoopDone(idx, num_steps) == idx >= num_steps

(* ---------------------------- the state space -------------------------- *)
Instances == {"A", "B"}

VARIABLES
    cfg,      \* the four configuration bundles the instances are built with
    pc,       \* per instance: "absent", "idle" or "running" (inside run)
    self,     \* per instance: the fields [state, rng, decoder]
    num,      \* per instance: num_steps of the run in progress or last made
    idx,      \* per instance: idx of the loop of run
    results,  \* per instance: the local list results of run
    last,     \* per instance: the latest call [call, arg, raised, value]
    trace,    \* per instance: the outcome of every step call made so far
    mark,     \* per instance: Len(trace) when the latest run was called
    probe,    \* the latest direct call of a Dynamics or Measurement function
    bench     \* a stand-alone SimpleSpectrumDecoder and its latest call

vars == <<cfg, pc, self, num, idx, results, last, trace, mark, probe, bench>>

coreVars == <<cfg, pc, self, num, idx, results, last, trace, mark>>

(* the values configuration fields are drawn from, invalid ones included *)
QuantumCandidates ==
    [n_qubits : 0..3, shots : 0..MaxShots, coupling_strength : {-137, 137},
     random_seed : {<<>>, <<0>>}]

SignalCandidates == [normalize : BOOLEAN, epsilon : {0, 1}]

FeedbackCandidates ==
    [pattern_rotation : {-1, 1}, noise_rotation : {-1, 2},
     target_qubit : {-1, 0, 1}, perturb_qubit : {-1, 0, 2}]

DecoderCandidates ==
    [threshold : {0, ONE, ONE + ONE \div 8},
     smoothing : {-1, ONE \div 2, ONE + 1},
     history : {0, 1, 2}]

\* the bundles whose construction does not raise
Configs ==
    [quantum : {q \in QuantumCandidates : QuantumConfigError(q) = "none"},
     signal : {s \in SignalCandidates : SignalConfigError(s) = "none"},
     feedback : {f \in FeedbackCandidates : FeedbackConfigError(f) = "none"},
     decoder : {d \in DecoderCandidates : DecoderConfigError(d) = "none"}]

NoCall == [call |-> "none", arg |-> 0, raised |-> "none", value |-> <<>>]

NoProbe == [fn |-> "none"]

NoBench == [config |-> [threshold |-> ONE, smoothing |-> 0, history |-> 1],
            decoder |-> NewDecoder, ratios |-> <<>>, calls |-> 0,
            raised |-> "none", call |-> "none", empty |-> FALSE,
            detected |-> FALSE, reads |-> 0]

\* an instance that was never constructed
Absent == [state |-> [amps |-> <<>>, den |-> 1], rng |-> 0, decoder |-> NewDecoder]

InitCounters ==
    /\ num = [c \in Instances |-> 0]
    /\ idx = [c \in Instances |-> 0]
    /\ results = [c \in Instances |-> <<>>]
    /\ last = [c \in Instances |-> NoCall]
    /\ trace = [c \in Instances |-> <<>>]
    /\ mark = [c \in Instances |-> 0]

\* one instance, constructed from any valid configuration
Init ==
    /\ cfg \in Configs
    /\ pc = [c \in Instances |-> IF c = "A" THEN "idle" ELSE "absent"]
    /\ \E s \in RandomStates(cfg.quantum.random_seed) :
          self = [c \in Instances |-> IF c = "A" THEN NewCore(cfg, s) ELSE Absent]
    /\ InitCounters
    /\ probe = NoProbe
    /\ bench = NoBench

(* ----------------------------- the actions ----------------------------- *)
\* a plausible slip: the generator is a class attribute that all instances
\* share
SteppedShared(all, c, out) ==
    [d \in DOMAIN all |->
        IF d = c THEN out.self ELSE [all[d] EXCEPT !.rng = out.self.rng]]

\* a plausible slip: a step that raises restores the fields it found
SteppedRolledBack(all, c, out) ==
    IF out.raised # "none" THEN all ELSE [all EXCEPT ![c] = out.self]

\* the fields of all instances after a step call on instance c: step
\* assigns self._state and works on self._rng and self._decoder, the
\* attributes __init__ gave this instance
Stepped(all, c, out) == [all EXCEPT ![c] = out.self]

\* a plausible slip: run starts from a fresh decoder
RunEntryFreshDecoder(fields) == [fields EXCEPT !.decoder = NewDecoder]

\* the instance fields when run enters its loop: the guard and results = []
\* assign no attribute of the instance
RunEntry(fields) == fields

\* run(num_steps) is called: it raises at once or enters its loop
RunCall(c, n) ==
    /\ pc[c] = "idle"
    /\ Len(trace[c]) + n <= MaxSteps
    /\ IF RunRejects(n)
       THEN /\ last' = [last EXCEPT ![c] =
                   [call |-> "run", arg |-> n,
                    raised |-> "num_steps must be positive", value |-> <<>>]]
            /\ UNCHANGED <<pc, self, num, idx, results, mark>>
       ELSE /\ last' = [last EXCEPT ![c] =
                   [call |-> "run", arg |-> n, raised |-> "none", value |-> <<>>]]
            /\ self' = [self EXCEPT ![c] = RunEntry(self[c])]
            /\ pc' = [pc EXCEPT ![c] = "running"]
            /\ num' = [num EXCEPT ![c] = n]
            /\ idx' = [idx EXCEPT ![c] = 0]
            /\ results' = [results EXCEPT ![c] = <<>>]
            /\ mark' = [mark EXCEPT ![c] = Len(trace[c])]
    /\ UNCHANGED <<cfg, trace, probe, bench>>

\* one iteration of the loop of run: results.append(self.step(idx)); an
\* error of step leaves run, and the local list with it
RunStep(c) ==
    /\ pc[c] = "running"
    /\ ~LoopDone(idx[c], num[c])
    /\ \E out \in {StepOutcome(self[c], cfg, idx[c])} :
       /\ self' = Stepped(self, c, out)
       /\ IF out.raised # "none"
          THEN /\ trace' = [trace EXCEPT ![c] = Append(@, [raised |-> out.raised])]
               /\ last' = [last EXCEPT ![c].raised = out.raised]
               /\ pc' = [pc EXCEPT ![c] = "idle"]
               /\ results' = [results EXCEPT ![c] = <<>>]
               /\ UNCHANGED idx
          ELSE /\ trace' = [trace EXCEPT ![c] =
                      Append(@, [raised |-> "none", result |-> out.result])]
               /\ results' = [results EXCEPT ![c] = Append(@, out.result)]
               /\ idx' = [idx EXCEPT ![c] = @ + 1]
               /\ UNCHANGED <<last, pc>>
    /\ UNCHANGED <<cfg, num, mark, probe, bench>>

\* run returns results
RunReturn(c) ==
    /\ pc[c] = "running"
    /\ LoopDone(idx[c], num[c])
    /\ last' = [last EXCEPT ![c].value = results[c]]
    /\ pc' = [pc EXCEPT ![c] = "idle"]
    /\ UNCHANGED <<cfg, self, num, idx, results, trace, mark, probe, bench>>

\* step(step_index) is called directly
StepCall(c, i) ==
    /\ pc[c] = "idle"
    /\ Len(trace[c]) < MaxSteps
    /\ \E out \in {StepOutcome(self[c], cfg, i)} :
       /\ self' = Stepped(self, c, out)
       /\ IF out.raised # "none"
          THEN /\ trace' = [trace EXCEPT ![c] = Append(@, [raised |-> out.raised])]
               /\ last' = [last EXCEPT ![c] =
                      [call |-> "step", arg |-> i, raised |-> out.raised,
                       value |-> <<>>]]
          ELSE /\ trace' = [trace EXCEPT ![c] =
                      Append(@, [raised |-> "none", result |-> out.result])]
               /\ last' = [last EXCEPT ![c] =
                      [call |-> "step", arg |-> i, raised |-> "none",
                       value |-> <<out.result>>]]
    /\ UNCHANGED <<cfg, pc, num, idx, results, mark, probe, bench>>

\* the arguments callers pass
RunArgs == -1..MaxSteps
StepArgs == {7}

Next ==
    \/ \E c \in Instances, n \in RunArgs : RunCall(c, n)
    \/ \E c \in Instances : RunStep(c)
    \/ \E c \in Instances : RunReturn(c)
    \/ \E c \in Instances, i \in StepArgs : StepCall(c, i)

Spec == Init /\ [][Next]_vars

\* two instances built with the same bundles (a subset of Configs)
PairConfigs ==
    {c \in Configs : /\ c.quantum.n_qubits = 2
                     /\ c.quantum.shots = MaxShots
                     /\ c.signal.normalize
                     /\ c.feedback.target_qubit = 1
                     /\ c.feedback.perturb_qubit = 0
                     /\ c.decoder.history = 2
                     /\ c.decoder.threshold > ONE}

InitPair ==
    /\ cfg \in PairConfigs
    /\ pc = [c \in Instances |-> "idle"]
    /\ \E sa \in RandomStates(cfg.quantum.random_seed),
          sb \in RandomStates(cfg.quantum.random_seed) :
          self = [c \in Instances |->
                     IF c = "A" THEN NewCore(cfg, sa) ELSE NewCore(cfg, sb)]
    /\ InitCounters
    /\ probe = NoProbe
    /\ bench = NoBench

SpecPair == InitPair /\ [][Next]_vars

Present == {c \in Instances : pc[c] # "absent"}

(* ------------------ direct calls of the Dynamics functions ------------- *)
MaxProbeQubits == 3  \* largest register of a direct Dynamics call

\* amplitudes that tell the positions of a vector apart
Labelled(n_qubits) ==
    [amps |-> [i \in 1..Pow2(n_qubits) |-> <<i, 0>>], den |-> 1]

DynamicsStates(n_qubits) ==
    {Labelled(n_qubits), uniform_superposition(n_qubits)}
      \cup {basis_state(i, n_qubits).result : i \in 0..(Pow2(n_qubits) - 1)}

\* no Orchestrator exists while functions are called directly; a behaviour
\* makes one direct call
NoCore ==
    /\ cfg = [quantum |-> [n_qubits |-> 1, shots |-> 1,
                           coupling_strength |-> 137, random_seed |-> <<>>],
              signal |-> [normalize |-> TRUE, epsilon |-> 1],
              feedback |-> [pattern_rotation |-> 1, noise_rotation |-> 2,
                            target_qubit |-> 1, perturb_qubit |-> 2],
              decoder |-> [threshold |-> ONE, smoothing |-> 0, history |-> 1]]
    /\ pc = [c \in Instances |-> "absent"]
    /\ self = [c \in Instances |-> Absent]
    /\ InitCounters

InitDynamics == NoCore /\ probe = NoProbe /\ bench = NoBench

\* the caller's list after a call that computed out
\* a plausible slip: result = state, so the writes land in the caller's list
AliasedList(state, out) == IF out.raised = "none" THEN out.result ELSE state

\* result = list(state): the writes go to the copy, and entangle_chain and
\* apply_hadamard_all only rebind their local name state
CopiedList(state, out) == state

\* apply_controlled_x(state, control, target, n_qubits) is called; the
\* field after is the caller's list once the call is over
CallControlledX(state, control, target, n_qubits) ==
    /\ probe = NoProbe
    /\ \E out \in {apply_controlled_x(state, control, target, n_qubits)} :
         probe' = [fn |-> "apply_controlled_x", state |-> state,
                   control |-> control, target |-> target,
                   n_qubits |-> n_qubits, out |-> out,
                   after |-> CopiedList(state, out)]
    /\ UNCHANGED <<coreVars, bench>>

\* the gates of direct calls
ProbeGates == {HADAMARD, rz(1), rz(2)}

\* apply_single_qubit_gate(state, gate, qubit, n_qubits) is called
CallSingleQubitGate(state, gate, qubit, n_qubits) ==
    /\ probe = NoProbe
    /\ \E out \in {apply_single_qubit_gate(state, gate, qubit, n_qubits)} :
         probe' = [fn |-> "apply_single_qubit_gate", state |-> state,
                   gate |-> gate, qubit |-> qubit, n_qubits |-> n_qubits,
                   out |-> out, after |-> CopiedList(state, out)]
    /\ UNCHANGED <<coreVars, bench>>

\* entangle_chain(state, n_qubits) is called: every index it passes on is
\* in range, so it returns
CallEntangleChain(state, n_qubits) ==
    /\ probe = NoProbe
    /\ \E out \in {[raised |-> "none",
                     result |-> entangle_chain(state, n_qubits)]} :
         probe' = [fn |-> "entangle_chain", state |-> state,
                   n_qubits |-> n_qubits, out |-> out,
                   after |-> CopiedList(state, out)]
    /\ UNCHANGED <<coreVars, bench>>

\* apply_hadamard_all(state, n_qubits) is called
CallHadamardAll(state, n_qubits) ==
    /\ probe = NoProbe
    /\ \E out \in {[raised |-> "none",
                     result |-> apply_hadamard_all(state, n_qubits)]} :
         probe' = [fn |-> "apply_hadamard_all", state |-> state,
                   n_qubits |-> n_qubits, out |-> out,
                   after |-> CopiedList(state, out)]
    /\ UNCHANGED <<coreVars, bench>>

NextDynamics ==
    \E n \in 1..MaxProbeQubits : \E state \in DynamicsStates(n) :
        \/ \E control \in -1..(n + 1), target \in -1..(n + 1) :
              CallControlledX(state, control, target, n)
        \/ \E gate \in ProbeGates, qubit \in -1..(n + 1) :
              CallSingleQubitGate(state, gate, qubit, n)
        \/ CallEntangleChain(state, n)
        \/ CallHadamardAll(state, n)

SpecDynamics == InitDynamics /\ [][NextDynamics]_vars

(* ---------------- direct calls of the Measurement functions ------------ *)
\* all vectors of the given length with amplitudes 0 and 1
BinaryStates(length) ==
    {[amps |-> a, den |-> 1] : a \in [1..length -> {CZero, COne}]}

\* k amplitudes 1 followed by amplitudes 0
LeadingOnes(length) ==
    {[amps |-> [i \in 1..length |-> IF i <= k THEN COne ELSE CZero], den |-> 1] :
        k \in 0..length}

MeasurementStates ==
    BinaryStates(1) \cup BinaryStates(2) \cup BinaryStates(4)
      \cup LeadingOnes(3) \cup LeadingOnes(8)

\* the keys of a register of n qubits, written out digit by digit
BinaryKey(index, n_qubits) ==
    [p \in 1..n_qubits |-> BitOf(index, n_qubits - p)]

KeysOf(n_qubits) == {BinaryKey(i, n_qubits) : i \in 0..(Pow2(n_qubits) - 1)}

\* the values the generator of a direct call returns: both ends of [0, 1)
\* and values in between
ProbeDraws == {0, 1, ONE \div 4, ONE \div 2, ONE - 2, ONE - 1}

\* the Counts dictionaries counts_to_signal is called with
ProbeCounts ==
    {<<>>} \cup [KeysOf(1) -> 0..2] \cup [KeysOf(2) -> 1..4]

InitMeasurement == NoCore /\ probe = NoProbe /\ bench = NoBench

\* sample_counts(state, shots, rng) is called with a generator that
\* returns the values rs
CallSampleCounts(state, shots, rs) ==
    /\ probe = NoProbe
    /\ probe' = [fn |-> "sample_counts", state |-> state, shots |-> shots,
                 rs |-> rs, out |-> sample_counts(state, shots, rs)]
    /\ UNCHANGED <<coreVars, bench>>

CallCountsToSignal(counts) ==
    /\ probe = NoProbe
    /\ probe' = [fn |-> "counts_to_signal", counts |-> counts,
                 out |-> counts_to_signal(counts)]
    /\ UNCHANGED <<coreVars, bench>>

NextMeasurement ==
    \/ \E state \in MeasurementStates, shots \in -1..MaxProbeShots :
         \E rs \in [1..(IF shots > 0 THEN shots ELSE 0) -> ProbeDraws] :
             CallSampleCounts(state, shots, rs)
    \/ \E counts \in ProbeCounts : CallCountsToSignal(counts)

SpecMeasurement == InitMeasurement /\ [][NextMeasurement]_vars

(* ---------------------- a stand-alone decoder -------------------------- *)
MaxHistory == 2      \* largest history capacity of the stand-alone decoder
MaxReads == 2        \* detect calls made between two update calls

BenchConfigs ==
    {d \in [threshold : {ONE, (3 * ONE) \div 2},
            smoothing : {0, ONE \div 2, ONE},
            history : 1..MaxHistory] : DecoderConfigError(d) = "none"}

\* the spectra update is called with, the empty one included
BenchSpectra ==
    {<<>>} \cup UNION {[1..n -> {0, ONE \div 2, ONE}] : n \in 1..2}
      \cup [1..3 -> {0, ONE}]

InitDecoder ==
    /\ NoCore
    /\ probe = NoProbe
    /\ \E d \in BenchConfigs : bench = [NoBench EXCEPT !.config = d]

\* decoder.update(spectrum); ratios lists the ratio of every update that
\* returned, calls counts the update calls, empty tells whether the
\* spectrum passed was empty
BenchUpdate(spectrum) ==
    /\ bench.calls < MaxUpdates
    /\ \E out \in {DecoderUpdate(bench.decoder, bench.config, spectrum)} :
       bench' = [config |-> bench.config,
                 decoder |-> out.decoder,
                 ratios |-> IF out.raised = "none"
                            THEN Append(bench.ratios, out.result.peak_ratio)
                            ELSE bench.ratios,
                 calls |-> bench.calls + 1,
                 raised |-> out.raised,
                 call |-> "update",
                 empty |-> (spectrum = <<>>),
                 detected |-> FALSE,
                 reads |-> 0]
    /\ UNCHANGED <<coreVars, probe>>

\* decoder.detect(): the value returned is kept in detected, reads counts
\* the detect calls since the latest update (raised and empty keep
\* describing that update); the method assigns no field
BenchDetect ==
    /\ bench.reads < MaxReads
    /\ bench' = [bench EXCEPT !.call = "detect", !.reads = @ + 1,
                               !.detected = DecoderDetect(bench.decoder,
                                                          bench.config)]
    /\ UNCHANGED <<coreVars, probe>>

NextDecoder ==
    \/ \E spectrum \in BenchSpectra : BenchUpdate(spectrum)
    \/ BenchDetect

SpecDecoder == InitDecoder /\ [][NextDecoder]_vars

(* ------------------------------ the claims ----------------------------- *)
Min(a, b) == IF a <= b THEN a ELSE b

RunReturned(c) ==
    pc[c] = "idle" /\ last[c].call = "run" /\ last[c].raised = "none"

\* C1: a call run(n) with n > 0 calls step exactly n times, one after the
\* other with the indices 0, 1, ..., n-1, and returns the n StepResults in
\* call order: the k-th has step = k and a non-empty spectrum.
C1_RunCollectsInOrder ==
    \A c \in Present :
        /\ pc[c] = "running" =>
              /\ idx[c] = Len(results[c])
              /\ Len(trace[c]) - mark[c] = idx[c]
              /\ idx[c] <= num[c]
        /\ (RunReturned(c) /\ last[c].arg > 0) =>
              /\ Len(last[c].value) = last[c].arg
              /\ Len(trace[c]) - mark[c] = last[c].arg
              /\ \A k \in 1..last[c].arg :
                    /\ last[c].value[k].step = k - 1
                    /\ last[c].value[k].spectrum # <<>>
                    /\ trace[c][mark[c] + k] =
                          [raised |-> "none", result |-> last[c].value[k]]

C1_Witness ==
    \E c \in Present : RunReturned(c) /\ last[c].arg = MaxSteps /\ MaxSteps >= 2

\* C2: a call run(n) with n <= 0 raises the invalid-argument error before
\* any step: nothing is returned, no step is made, and the state vector,
\* the decoder and the generator are what they were before the call.
C2_RunRejectsNonPositive ==
    [][\A c \in Present :
          (pc[c] = "idle" /\ last'[c] # last[c]
             /\ last'[c].call = "run" /\ last'[c].arg <= 0)
          => /\ last'[c].raised = "num_steps must be positive"
             /\ last'[c].value = <<>>
             /\ pc'[c] = "idle"
             /\ self'[c] = self[c]
             /\ trace'[c] = trace[c]]_vars

C2_Witness ==
    \E c \in Present :
        /\ last[c] = [call |-> "run", arg |-> 0,
                      raised |-> "num_steps must be positive", value |-> <<>>]
        /\ Len(trace[c]) > 0

\* what the k-th step call of an instance produced
Produced(c, k) ==
    IF trace[c][k].raised # "none" THEN <<trace[c][k].raised>>
    ELSE <<trace[c][k].result.peak_ratio, trace[c][k].result.detected_pattern,
           trace[c][k].result.spectrum>>

SameProduced ==
    \A k \in 1..Min(Len(trace["A"]), Len(trace["B"])) :
        Produced("A", k) = Produced("B", k)

\* C3 as stated: two instances built with the same bundles and the same
\* random_seed produce the same peak_ratio, detected_pattern and spectrum
\* step by step.
C3_Original == SameProduced

\* C3 as amended: the same holds when the shared random_seed is an integer
\* (with random_seed = None each instance seeds itself from the operating
\* system).
C3_SeededDeterminism == cfg.quantum.random_seed # <<>> => SameProduced

C3_Witness ==
    /\ cfg.quantum.random_seed # <<>>
    /\ \A c \in Instances : RunReturned(c) /\ last[c].arg = MaxSteps

RECURSIVE SumCounts(_, _)
SumCounts(counts, keys) ==
    IF keys = {} THEN 0
    ELSE LET k == CHOOSE x \in keys : TRUE
         IN counts[k] + SumCounts(counts, keys \ {k})

SampleReturned == probe.fn = "sample_counts" /\ probe.out.raised = "none"

\* C4: for a state of power-of-two length with non-zero mass, shots > 0 and
\* any values r in [0, 1) of the generator, the values of the Counts that
\* sample_counts returns sum to shots.
C4_CountsSumToShots ==
    SampleReturned =>
        SumCounts(probe.out.result, DOMAIN probe.out.result) = probe.shots

\* the latest step call of the instance, if any, returned
LatestStepReturned(c) ==
    trace[c] = <<>> \/ trace[c][Len(trace[c])].raised = "none"

\* C5: after construction and after any sequence of completed step calls
\* the state vector has length 2^n_qubits and squared norm 1.
C5_StateNormalised ==
    \A c \in Present :
        LatestStepReturned(c) =>
            /\ StateLen(self[c].state) = Pow2(cfg.quantum.n_qubits)
            /\ IsUnitNorm(self[c].state)

C5_Witness ==
    \E c \in Present :
        /\ cfg.quantum.n_qubits = 3
        /\ Len(trace[c]) = MaxSteps
        /\ \A k \in 1..MaxSteps : trace[c][k].raised = "none"
        /\ \E k \in 1..MaxSteps : trace[c][k].result.detected_pattern

\* C6: with bundles that were constructed without error, construction and
\* every later step or run(n > 0) completes without an error caused by a
\* configuration value.
C6_NoConfigErrorAfterConstruction ==
    \A c \in Present :
        /\ \A k \in 1..Len(trace[c]) : trace[c][k].raised = "none"
        /\ last[c].raised \in {"none", "num_steps must be positive"}

CxReturned == probe.fn = "apply_controlled_x" /\ probe.out.raised = "none"

\* C7: for valid control # target, apply_controlled_x returns r with
\* r[i] = state[i XOR 2^target] where bit control of i is 1 and
\* r[i] = state[i] where it is 0; of each pair (i, i XOR 2^target) with
\* control bit 1 exactly one side, the one with target bit 0, triggers the
\* swap.
C7_ControlledXPermutes ==
    CxReturned =>
        /\ StateLen(probe.out.result) = StateLen(probe.state)
        /\ probe.out.result.den = probe.state.den
        /\ \A i \in 0..(StateLen(probe.state) - 1) :
              /\ probe.out.result.amps[i + 1] =
                    IF BitOf(i, probe.control) = 1
                    THEN probe.state.amps[FlipBit(i, probe.target) + 1]
                    ELSE probe.state.amps[i + 1]
              /\ BitOf(i, probe.control) = 1 =>
                    /\ Cardinality({j \in {i, FlipBit(i, probe.target)} :
                           CxTrigger(j, probe.control, probe.target)}) = 1
                    /\ CxTrigger(i, probe.control, probe.target)
                           <=> BitOf(i, probe.target) = 0
              /\ BitOf(i, probe.control) = 0 =>
                    ~CxTrigger(i, probe.control, probe.target)

C7_Witness ==
    /\ CxReturned
    /\ probe.n_qubits = 3
    /\ probe.state = Labelled(3)
    /\ probe.control = 0
    /\ probe.target = 2
    /\ probe.out.result.amps = <<<<1, 0>>, <<6, 0>>, <<3, 0>>, <<8, 0>>,
                                 <<5, 0>>, <<2, 0>>, <<7, 0>>, <<4, 0>> >>

InRange(q, n_qubits) == 0 <= q /\ q < n_qubits

\* C8: apply_controlled_x raises the invalid-argument error whenever
\* control = target, whatever the shared index, and the range error whenever
\* control # target and one of them is outside [0, n_qubits); in both cases
\* nothing is returned and the caller's state keeps its elements.
C8_ControlledXErrors ==
    probe.fn = "apply_controlled_x" =>
        /\ probe.control = probe.target =>
              probe.out = [raised |-> "control and target must be different"]
        /\ (probe.control # probe.target
              /\ ~(InRange(probe.control, probe.n_qubits)
                   /\ InRange(probe.target, probe.n_qubits))) =>
              probe.out = [raised |-> "qubit index out of range"]
        /\ probe.out.raised # "none" => probe.after = probe.state

C8_Witness ==
    /\ probe.fn = "apply_controlled_x"
    /\ probe.n_qubits = 2
    /\ probe.control = 3
    /\ probe.target = 3
    /\ probe.out.raised = "control and target must be different"

LastOf(s, m) == SubSeq(s, Len(s) - m + 1, Len(s))

\* C10: after k successful update calls with capacity H the history holds
\* exactly the last min(k, H) peak ratios in arrival order; its length never
\* exceeds H, and an overflow evicts the oldest entry only.
C10_HistoryBounded ==
    /\ Len(bench.decoder.history) <= bench.config.history
    /\ bench.decoder.history =
          LastOf(bench.ratios, Min(Len(bench.ratios), bench.config.history))

C10_Witness ==
    /\ Len(bench.ratios) = 3
    /\ bench.config.history = 2
    /\ bench.ratios[1] # bench.ratios[2]
    /\ bench.ratios[2] # bench.ratios[3]
    /\ bench.decoder.history = <<bench.ratios[2], bench.ratios[3]>>

StepReturned(c) ==
    /\ Len(trace'[c]) = Len(trace[c]) + 1
    /\ trace'[c][Len(trace'[c])].raised = "none"

\* the StepResult of that call
Returned(c) == trace'[c][Len(trace'[c])].result

\* the spectrum measured on a state with the draws a generator state yields
Measured(state, rng, config) ==
    fourier_spectrum(
        counts_to_signal(
            sample_counts(state, config.quantum.shots,
                          RngDraws(rng, config.quantum.shots)).result).result,
        config.signal)

\* the gate rz(angle) on the qubit, then normalize
Rotated(state, angle, qubit, n_qubits) ==
    normalize(apply_single_qubit_gate(state, rz(angle), qubit, n_qubits).result).result

\* C12: in every completed step the flag is read from the decoder that this
\* step's update left (its history already ends with the step's own
\* peak_ratio); the state after the step is the evolved state with exactly
\* one gate applied, rz(pattern_rotation) on target_qubit when the flag is
\* true and rz(noise_rotation) on perturb_qubit when it is false; the
\* spectrum was measured on the evolved state, before that gate; and
\* detected_pattern is the flag.
C12_FeedbackFollowsDetection ==
    [][\A c \in Present :
          StepReturned(c) =>
            \E evolved \in {Evolve(self[c].state, cfg.quantum)} :
              /\ Returned(c).spectrum = Measured(evolved, self[c].rng, cfg)
              /\ self'[c].decoder.history =
                     DequeAppend(self[c].decoder.history, Returned(c).peak_ratio,
                                 cfg.decoder.history)
              /\ Returned(c).detected_pattern =
                     (self'[c].decoder.baseline >= cfg.decoder.threshold)
              /\ Returned(c).detected_pattern =>
                     self'[c].state =
                        Rotated(evolved, cfg.feedback.pattern_rotation,
                                cfg.feedback.target_qubit, cfg.quantum.n_qubits)
              /\ ~Returned(c).detected_pattern =>
                     self'[c].state =
                        Rotated(evolved, cfg.feedback.noise_rotation,
                                cfg.feedback.perturb_qubit, cfg.quantum.n_qubits)]_vars

\* a first step that leaves the flag false and a second one that turns it
\* true, with a threshold above the initial baseline
C12_Witness ==
    \E c \in Present :
        /\ cfg.decoder.threshold > ONE
        /\ Len(trace[c]) = 2
        /\ \A k \in 1..2 : trace[c][k].raised = "none"
        /\ ~trace[c][1].result.detected_pattern
        /\ trace[c][2].result.detected_pattern

\* what a step call produced, without its step index
Stripped(entry) ==
    IF entry.raised # "none" THEN <<entry.raised>>
    ELSE <<entry.result.peak_ratio, entry.result.detected_pattern,
           entry.result.spectrum>>

\* C13: under every interleaving of the step calls of two instances, a step
\* of instance c produces, and leaves in c's state vector, decoder and
\* generator, what step computes from c's own fields alone (so c's sequence
\* of results is the one it produces when it runs alone), and it changes no
\* field and no result of the other instance; nothing but its own steps
\* changes an instance.
C13_InstancesIndependent ==
    [][\A c \in Instances :
          /\ trace'[c] = trace[c] => self'[c] = self[c]
          /\ trace'[c] # trace[c] =>
                \E alone \in {StepOutcome(self[c], cfg, 0)} :
                   /\ self'[c] = alone.self
                   /\ trace'[c][Len(trace'[c])].raised = alone.raised
                   /\ Stripped(trace'[c][Len(trace'[c])]) =
                          IF alone.raised # "none" THEN <<alone.raised>>
                          ELSE <<alone.result.peak_ratio,
                                 alone.result.detected_pattern,
                                 alone.result.spectrum>>
                   /\ \A d \in Instances \ {c} :
                         /\ self'[d] = self[d]
                         /\ trace'[d] = trace[d]
                         /\ results'[d] = results[d]
                         /\ idx'[d] = idx[d]
                         /\ last'[d] = last[d]]_vars

\* both instances are in the middle of things, at different points
C13_Witness ==
    /\ Len(trace["A"]) = 1
    /\ Len(trace["B"]) = 2
    /\ pc["A"] = "running"
    /\ self["A"] # self["B"]

\* C14: update called with an empty spectrum raises the domain error and
\* leaves the decoder as it was: history and baseline after the failed call
\* are those before it, and a detect call that follows returns what the
\* decoder before the failed call gives.
C14_EmptySpectrumRejected ==
    [][/\ (bench'.call = "update" /\ bench'.empty) =>
             /\ bench'.raised = "spectrum cannot be empty"
             /\ bench'.decoder.history = bench.decoder.history
             /\ bench'.decoder.baseline = bench.decoder.baseline
             /\ bench'.ratios = bench.ratios
       /\ (bench.empty /\ bench'.call = "detect") =>
             bench'.detected =
                (bench.decoder.baseline >= bench.config.threshold)
       /\ (bench'.call = "update" /\ ~bench'.empty) => bench'.raised = "none"]_vars

\* two updates that were accepted, then a failed one, then a detect call
C14_Witness ==
    /\ bench.call = "detect"
    /\ bench.empty
    /\ bench.raised = "spectrum cannot be empty"
    /\ bench.reads = 1
    /\ bench.calls = 3
    /\ Len(bench.ratios) = 2
    /\ bench.decoder.history # <<>>
    /\ bench.decoder.baseline # ONE
    /\ bench.detected

\* C15: the baseline starts at 1.0, and an update that returns leaves
\* smoothing * mean(history with the new ratio) + (1 - smoothing) * previous
\* baseline; with smoothing = 0 the baseline stays 1.0 and detect returns
\* 1.0 >= threshold every time, with smoothing = 1 the baseline is the mean
\* of the current history.
C15_BaselineBlend ==
    [][/\ bench.calls = 0 => bench.decoder.baseline = ONE
       /\ (bench'.call = "update" /\ bench'.raised = "none") =>
             bench'.decoder.baseline =
                FMul(bench.config.smoothing, mean(bench'.decoder.history))
                  + FMul(ONE - bench.config.smoothing, bench.decoder.baseline)
       /\ bench.config.smoothing = 0 =>
             /\ bench'.decoder.baseline = ONE
             /\ bench'.call = "detect" =>
                    bench'.detected = (ONE >= bench.config.threshold)
       /\ (bench.config.smoothing = ONE /\ bench'.decoder.history # <<>>) =>
             bench'.decoder.baseline = mean(bench'.decoder.history)]_vars

C15_Witness ==
    /\ bench.config.smoothing = ONE \div 2
    /\ bench.config.history = 2
    /\ Len(bench.ratios) = 3
    /\ bench.decoder.baseline # ONE
    /\ bench.decoder.baseline # mean(bench.decoder.history)

DynamicsCalls ==
    {"apply_single_qubit_gate", "apply_controlled_x", "entangle_chain",
     "apply_hadamard_all"}

\* C16: each of the four Dynamics operations, called on a state of length
\* 2^n with valid qubit indices, returns a vector of the same length, and
\* the caller's vector keeps its elements whatever the outcome;
\* apply_single_qubit_gate with a qubit outside [0, n) raises the range
\* error and returns nothing.
C16_DynamicsReplacesState ==
    probe.fn \in DynamicsCalls =>
        /\ StateLen(probe.state) = Pow2(probe.n_qubits)
        /\ probe.after = probe.state
        /\ probe.fn = "apply_single_qubit_gate" =>
              IF InRange(probe.qubit, probe.n_qubits)
              THEN /\ probe.out.raised = "none"
                   /\ StateLen(probe.out.result) = StateLen(probe.state)
              ELSE probe.out = [raised |-> "qubit index out of range"]
        /\ (probe.fn = "apply_controlled_x"
              /\ probe.control # probe.target
              /\ InRange(probe.control, probe.n_qubits)
              /\ InRange(probe.target, probe.n_qubits)) =>
                 /\ probe.out.raised = "none"
                 /\ StateLen(probe.out.result) = StateLen(probe.state)
        /\ probe.fn \in {"entangle_chain", "apply_hadamard_all"} =>
              /\ probe.out.raised = "none"
              /\ StateLen(probe.out.result) = StateLen(probe.state)

\* Hadamard on both qubits of |00>: the result differs from the argument
C16_Witness ==
    /\ probe.fn = "apply_hadamard_all"
    /\ probe.n_qubits = 2
    /\ probe.state = basis_state(0, 2).result
    /\ probe.out.result = [amps |-> <<COne, COne, COne, COne>>, den |-> 4]
    /\ probe.after = probe.state

\* all amplitudes of the state have squared magnitude 1 / length
SameMagnitudes(state) ==
    \A i \in 1..StateLen(state) :
        CAbsSq(state.amps[i]) * StateLen(state) = state.den

\* C17: after construction and after any number of completed steps, whatever
\* was detected, every amplitude has squared magnitude 1 / 2^n_qubits, and
\* the distribution the next step samples from (the probabilities of the
\* evolved state) gives every basis index the same probability.
C17_UniformMagnitudes ==
    \A c \in Present :
        LatestStepReturned(c) =>
            /\ StateLen(self[c].state) = Pow2(cfg.quantum.n_qubits)
            /\ SameMagnitudes(self[c].state)
            /\ \E sampled \in {probabilities(Evolve(self[c].state, cfg.quantum))} :
                  /\ sampled.raised = "none"
                  /\ \A i \in 1..Len(sampled.result) :
                        sampled.result[i] =
                            RoundDiv(ONE, Pow2(cfg.quantum.n_qubits))

\* two completed steps with different detection outcomes, after which the
\* amplitudes differ in phase
C17_Witness ==
    \E c \in Present :
        /\ cfg.quantum.n_qubits = 2
        /\ Len(trace[c]) = MaxSteps
        /\ \A k \in 1..MaxSteps : trace[c][k].raised = "none"
        /\ trace[c][1].result.detected_pattern #
              trace[c][MaxSteps].result.detected_pattern
        /\ \E i \in 1..StateLen(self[c].state) :
              self[c].state.amps[i] # self[c].state.amps[1]

\* every step call the instance made so far was made by run, and returned
OnlyRuns(c) ==
    \A k \in 1..Len(trace[c]) :
        trace[c][k].raised = "none" /\ trace[c][k].result.step \notin StepArgs

\* a StepResult without its step index
Unindexed(result) ==
    <<result.detected_pattern, result.peak_ratio, result.spectrum>>

\* C18: with an integer seed, when instance c has only made run calls, the
\* latest of them not the first, and instance d has made one run call of as
\* many steps as c made in all, the results c collected over its runs are,
\* position by position, the results d returned, step indices apart; the
\* indices of c's latest run start again at 0.
C18_RunsCompose ==
    \A c \in Instances : \A d \in Instances \ {c} :
        (/\ cfg.quantum.random_seed # <<>>
         /\ RunReturned(c) /\ OnlyRuns(c) /\ mark[c] > 0
         /\ RunReturned(d) /\ OnlyRuns(d) /\ mark[d] = 0
         /\ last[d].arg = Len(trace[c]))
        => /\ Len(last[d].value) = Len(trace[c])
           /\ \A k \in 1..Len(trace[c]) :
                 Unindexed(trace[c][k].result) = Unindexed(last[d].value[k])
           /\ \A j \in 1..Len(last[c].value) :
                 /\ last[c].value[j].step = j - 1
                 /\ last[c].value[j] = trace[c][mark[c] + j].result
                 /\ last[d].value[mark[c] + j].step = mark[c] + j - 1

\* run(1) twice on A and run(2) once on B, the two steps differing
C18_Witness ==
    /\ cfg.quantum.random_seed # <<>>
    /\ RunReturned("A") /\ OnlyRuns("A") /\ mark["A"] = 1 /\ last["A"].arg = 1
    /\ RunReturned("B") /\ OnlyRuns("B") /\ mark["B"] = 0 /\ last["B"].arg = 2
    /\ Unindexed(trace["A"][1].result) # Unindexed(trace["A"][2].result)

\* instance c made a step call in this transition, and the call raised
StepRaised(c) ==
    /\ Len(trace'[c]) = Len(trace[c]) + 1
    /\ trace'[c][Len(trace'[c])].raised # "none"

\* C19: a step raises exactly when the qubit the detection selects
\* (target_qubit when the flag is true, perturb_qubit when it is false) is
\* >= n_qubits, and then it raises the range error with the state vector
\* already replaced by the evolved state, the generator advanced by shots
\* draws and the decoder updated with the step's peak ratio; the call
\* returns no StepResult, and a run in progress ends with the error and
\* returns nothing, the results of its earlier steps included.
C19_FailedStepNotRolledBack ==
    [][\A c \in Present :
          Len(trace'[c]) = Len(trace[c]) + 1 =>
            \E evolved \in {Evolve(self[c].state, cfg.quantum)} :
              \E updated \in {DecoderUpdate(self[c].decoder, cfg.decoder,
                                   Measured(evolved, self[c].rng, cfg))} :
                \E qubit \in {IF updated.decoder.baseline >= cfg.decoder.threshold
                               THEN cfg.feedback.target_qubit
                               ELSE cfg.feedback.perturb_qubit} :
                  /\ StepRaised(c) <=> qubit >= cfg.quantum.n_qubits
                  /\ StepRaised(c) =>
                        /\ trace'[c][Len(trace'[c])] =
                               [raised |-> "qubit index out of range"]
                        /\ self'[c].state = evolved
                        /\ self'[c].rng = RngAfter(self[c].rng, cfg.quantum.shots)
                        /\ self'[c].decoder = updated.decoder
                        /\ self'[c].decoder.history # <<>>
                        /\ self'[c].decoder.history[Len(self'[c].decoder.history)]
                               = updated.result.peak_ratio
                        /\ pc'[c] = "idle"
                        /\ last'[c].raised = "qubit index out of range"
                        /\ last'[c].value = <<>>]_vars

\* a run of two steps whose first step returned and whose second step
\* raised: the error is all the caller gets, and the fields have moved on
C19_Witness ==
    \E c \in Present :
        /\ last[c] = [call |-> "run", arg |-> 2,
                      raised |-> "qubit index out of range", value |-> <<>>]
        /\ mark[c] = 0
        /\ Len(trace[c]) = 2
        /\ trace[c][1].raised = "none"
        /\ trace[c][2].raised # "none"
        /\ Len(self[c].decoder.history) = 2

=============================================================================
